---------------------------- MODULE Spec2Model ----------------------------
(***************************************************************************)
(* Samosa Sharpness Analyzer (src/src/App.jsx).                            *)
(*                                                                         *)
(* The model has three layers:                                             *)
(*   - JavaScript values and the string / JSON built-ins the code calls,   *)
(*     worked out character by character on TLA+ strings;                  *)
(*   - the two helpers getImageData and processGeminiResponse;             *)
(*   - the component SamosaSharpnessAnalyzer as a state machine whose      *)
(*     actions are the tasks and promise continuations of the browser's    *)
(*     event loop.                                                         *)
(***************************************************************************)
EXTENDS Integers, Sequences, FiniteSets, TLC

(***************************************************************************)
(* Bounds of the model.                                                    *)
(***************************************************************************)
MaxSelections == 2      \* files the user selects in one session
MaxCorners    == 2      \* corner observations in a generated reply

(***************************************************************************)
(* JavaScript values.  Every value is a record [t, v] so that values of    *)
(* different JavaScript types can be compared.                             *)
(***************************************************************************)
JUndef    == [t |-> "undefined", v |-> 0]
JNull     == [t |-> "null", v |-> 0]
JNum(n)   == [t |-> "num", v |-> n]
JStr(s)   == [t |-> "str", v |-> s]
JBool(b)  == [t |-> "bool", v |-> b]
JArr(a)   == [t |-> "arr", v |-> a]
JObj(f)   == [t |-> "obj", v |-> f]

\* ToBoolean, as used by the ! operator and by ||
Truthy(x) ==
    CASE x.t = "undefined" -> FALSE
      [] x.t = "null"      -> FALSE
      [] x.t = "num"       -> x.v # 0
      [] x.t = "str"       -> x.v # ""
      [] x.t = "bool"      -> x.v
      [] OTHER             -> TRUE

\* property read  o.k  on an object value
Get(o, k) == IF o.t = "obj" /\ k \in DOMAIN o.v THEN o.v[k] ELSE JUndef

(***************************************************************************)
(* String built-ins.                                                       *)
(***************************************************************************)
At(s, i) == SubSeq(s, i, i)

UpperCaseLetters == "ABCDEFGHIJKLMNOPQRSTUVWXYZ"
LowerCaseLetters == "abcdefghijklmnopqrstuvwxyz"

\* the lower-case letter of every upper-case letter
LowerOf ==
    [c \in {At(UpperCaseLetters, k) : k \in 1..26} |->
        At(LowerCaseLetters, CHOOSE k \in 1..26 : At(UpperCaseLetters, k) = c)]

LowerChar(c) == IF c \in DOMAIN LowerOf THEN LowerOf[c] ELSE c

\* the characters lo..hi of s in lower case, by halves
RECURSIVE LowerRange(_, _, _)
LowerRange(s, lo, hi) ==
    IF lo > hi THEN ""
    ELSE IF lo = hi THEN LowerChar(At(s, lo))
    ELSE LET mid == (lo + hi) \div 2
         IN  LowerRange(s, lo, mid) \o LowerRange(s, mid + 1, hi)

\* String.prototype.toLowerCase
ToLowerCase(s) == LowerRange(s, 1, Len(s))

\* String.prototype.includes
Includes(s, sub) ==
    \E i \in 1..(Len(s) - Len(sub) + 1) : SubSeq(s, i, i + Len(sub) - 1) = sub

\* String.prototype.startsWith
StartsWith(s, pre) == Len(pre) <= Len(s) /\ SubSeq(s, 1, Len(pre)) = pre

\* String.prototype.split with a one-character separator: the pieces between
\* the separators, in order
RECURSIVE SplitFrom(_, _, _, _)
SplitFrom(s, sep, start, i) ==
    IF i > Len(s) THEN <<SubSeq(s, start, Len(s))>>
    ELSE IF At(s, i) = sep
         THEN <<SubSeq(s, start, i - 1)>> \o SplitFrom(s, sep, i + 1, i + 1)
         ELSE SplitFrom(s, sep, start, i + 1)

Split(s, sep) == SplitFrom(s, sep, 1, 1)

(***************************************************************************)
(* JSON.parse on the subset of JSON without escapes, fractions and         *)
(* exponents.  A parse result is [ok, val, pos]: pos is the index of the   *)
(* first character not consumed.                                           *)
(***************************************************************************)
Whitespace == {" ", "\n", "\t", "\r"}
Digits     == "0123456789"

ParseFail  == [ok |-> FALSE, val |-> JUndef, pos |-> 0]
ParseOk(val, pos) == [ok |-> TRUE, val |-> val, pos |-> pos]

\* the value of every digit character
DigitValue == [c \in {At(Digits, k) : k \in 1..10} |->
                  (CHOOSE k \in 1..10 : At(Digits, k) = c) - 1]

IsDigit(c) == c \in DOMAIN DigitValue
DigitVal(c) == DigitValue[c]

RECURSIVE SkipWs(_, _)
SkipWs(s, i) ==
    IF i <= Len(s) /\ At(s, i) \in Whitespace THEN SkipWs(s, i + 1) ELSE i

\* digits from position i on, acc the value read so far
RECURSIVE ParseDigits(_, _, _)
ParseDigits(s, i, acc) ==
    IF i <= Len(s) /\ IsDigit(At(s, i))
    THEN ParseDigits(s, i + 1, 10 * acc + DigitVal(At(s, i)))
    ELSE ParseOk(JNum(acc), i)

ParseNumber(s, i) ==
    LET neg == At(s, i) = "-"
        j   == IF neg THEN i + 1 ELSE i
    IN  IF j > Len(s) \/ ~IsDigit(At(s, j)) THEN ParseFail
        ELSE IF At(s, j) = "0"
             THEN ParseOk(JNum(0), j + 1)
             ELSE LET r == ParseDigits(s, j, 0)
                  IN  ParseOk(JNum(IF neg THEN 0 - r.val.v ELSE r.val.v), r.pos)

\* the position of the first '"' at or after j, Len(s) + 1 when there is none
RECURSIVE ClosingQuote(_, _)
ClosingQuote(s, j) ==
    IF j > Len(s) \/ At(s, j) = "\"" THEN j ELSE ClosingQuote(s, j + 1)

\* s has '"' at position i
ParseString(s, i) ==
    LET j == ClosingQuote(s, i + 1)
    IN  IF j > Len(s) THEN ParseFail
        ELSE ParseOk(JStr(SubSeq(s, i + 1, j - 1)), j + 1)

\* the word w stands at position i of s
WordAt(s, i, w) == i + Len(w) - 1 <= Len(s) /\ SubSeq(s, i, i + Len(w) - 1) = w

ParseLiteral(s, i) ==
    CASE WordAt(s, i, "true")  -> ParseOk(JBool(TRUE), i + 4)
      [] WordAt(s, i, "false") -> ParseOk(JBool(FALSE), i + 5)
      [] WordAt(s, i, "null")  -> ParseOk(JNull, i + 4)
      [] OTHER -> ParseFail

RECURSIVE ParseValue(_, _)
RECURSIVE ParseMembers(_, _, _)
RECURSIVE ParseElements(_, _, _)

\* after '{' or ',': one "key": value member, then ',' or '}'.  A later
\* member replaces an earlier one with the same key.
ParseMembers(s, i, acc) ==
    LET k == SkipWs(s, i)
    IN  IF k > Len(s) \/ At(s, k) # "\"" THEN ParseFail
        ELSE LET key == ParseString(s, k)
             IN  IF ~key.ok THEN ParseFail
                 ELSE LET c == SkipWs(s, key.pos)
                      IN  IF c > Len(s) \/ At(s, c) # ":" THEN ParseFail
                          ELSE LET val == ParseValue(s, c + 1)
                               IN  IF ~val.ok THEN ParseFail
                                   ELSE LET e   == SkipWs(s, val.pos)
                                            obj == (key.val.v :> val.val) @@ acc
                                        IN  IF e > Len(s) THEN ParseFail
                                            ELSE IF At(s, e) = ","
                                                 THEN ParseMembers(s, e + 1, obj)
                                            ELSE IF At(s, e) = "}"
                                                 THEN ParseOk(JObj(obj), e + 1)
                                            ELSE ParseFail

\* after '[' or ',': one element, then ',' or ']'
ParseElements(s, i, acc) ==
    LET val == ParseValue(s, i)
    IN  IF ~val.ok THEN ParseFail
        ELSE LET e   == SkipWs(s, val.pos)
                 arr == Append(acc, val.val)
             IN  IF e > Len(s) THEN ParseFail
                 ELSE IF At(s, e) = "," THEN ParseElements(s, e + 1, arr)
                 ELSE IF At(s, e) = "]" THEN ParseOk(JArr(arr), e + 1)
                 ELSE ParseFail

ParseValue(s, i) ==
    LET k == SkipWs(s, i)
    IN  IF k > Len(s) THEN ParseFail
        ELSE LET c == At(s, k)
             IN  CASE c = "{" ->
                        LET n == SkipWs(s, k + 1)
                        IN  IF n <= Len(s) /\ At(s, n) = "}"
                            THEN ParseOk(JObj(<<>>), n + 1)
                            ELSE ParseMembers(s, k + 1, <<>>)
                   [] c = "[" ->
                        LET n == SkipWs(s, k + 1)
                        IN  IF n <= Len(s) /\ At(s, n) = "]"
                            THEN ParseOk(JArr(<<>>), n + 1)
                            ELSE ParseElements(s, k + 1, <<>>)
                   [] c = "\"" -> ParseString(s, k)
                   [] c = "-" \/ IsDigit(c) -> ParseNumber(s, k)
                   [] OTHER -> ParseLiteral(s, k)

\* what JSON.parse throws on text that is not JSON; every engine's message
\* names JSON
SyntaxErrorMessage == "Unexpected token in JSON"

\* JSON.parse: [threw, value, message]
JSONparse(s) ==
    LET r == ParseValue(s, 1)
    IN  IF r.ok /\ SkipWs(s, r.pos) = Len(s) + 1
        THEN [threw |-> FALSE, value |-> r.val, message |-> ""]
        ELSE [threw |-> TRUE, value |-> JUndef, message |-> SyntaxErrorMessage]


(***************************************************************************)
(* Promises: a promise settles once; later resolve / reject calls are      *)
(* ignored.                                                                *)
(***************************************************************************)
NoPromise      == [state |-> "none", value |-> JUndef, message |-> ""]
PendingPromise == [state |-> "pending", value |-> JUndef, message |-> ""]
Resolve(val)   == [state |-> "resolved", value |-> val, message |-> ""]
Reject(msg)    == [state |-> "rejected", value |-> JUndef, message |-> msg]

Settle(promise, settlement) ==
    IF promise.state = "pending" THEN settlement ELSE promise

(***************************************************************************)
(* messages, App.jsx lines 7-11                                            *)
(***************************************************************************)
messages ==
    << "Analyzing samosa geometry...",
       "Evaluating crispiness patterns...",
       "Consulting with AI food experts..." >>

(***************************************************************************)
(* getImageData, App.jsx lines 14-36                                       *)
(***************************************************************************)
NoFile == [present |-> FALSE, type |-> ""]
File(type) == [present |-> TRUE, type |-> type]

MsgInvalidFile   == "Invalid file type. Please upload an image file."
MsgNoBase64      == "Failed to convert image to base64"
MsgReadError     == "Error reading file"
MsgProcessPrefix == "Error processing image: "
\* message of the TypeError raised by reading .split of null
TypeErrorMessage == "Cannot read properties of null (reading 'split')"

\* variant: only the absent file is refused
InvalidInput_AbsentOnly(f) == ~f.present

\* line 15: the guard that throws before a reader is created
InvalidInput(f) == ~f.present \/ ~StartsWith(f.type, "image/")

\* FileReader.readAsDataURL: the result attribute after a successful read of
\* a file whose bytes encode to base64
DataURL(f, base64) == "data:" \o f.type \o ";base64," \o base64

\* variant: the handler resolves with whatever follows the comma
onloadend_NoEmptyCheck(result) ==
    IF result.t # "str"
    THEN Reject(MsgProcessPrefix \o TypeErrorMessage)
    ELSE LET pieces == Split(result.v, ",")
         IN  Resolve(IF Len(pieces) >= 2 THEN JStr(pieces[2]) ELSE JUndef)

\* lines 21-32: reader.onloadend, as the settlement it asks for.  result is
\* reader.result: a string after a successful read, null after a failed one.
onloadend(result) ==
    IF result.t # "str"
    THEN Reject(MsgProcessPrefix \o TypeErrorMessage)
    ELSE LET pieces     == Split(result.v, ",")
             base64Data == IF Len(pieces) >= 2 THEN JStr(pieces[2]) ELSE JUndef
         IN  IF ~Truthy(base64Data) THEN Reject(MsgNoBase64)
             ELSE Resolve(base64Data)

\* line 33: reader.onerror
onerror == Reject(MsgReadError)

(***************************************************************************)
(* processGeminiResponse, App.jsx lines 46-75                              *)
(***************************************************************************)
MsgNoSamosa      == "No samosa detected in the image. Please upload a clear image of a samosa."
MsgNoJson        == "Could not get a proper analysis. Please try with a clearer image of a samosa."
MsgInvalidFormat == "Invalid analysis format. Please try again with a different image."
MsgNotAnalyzed   == "Could not analyze the image properly. Please try with a different image."

Thrown(msg)   == [threw |-> TRUE, value |-> JUndef, message |-> msg]
Returned(val) == [threw |-> FALSE, value |-> val, message |-> ""]

\* variant: the markers are looked for in the text as written
IsRefusal_CaseSensitive(responseText) ==
    \/ Includes(responseText, "sorry")
    \/ Includes(responseText, "unable to")

\* lines 49-50
IsRefusal(responseText) ==
    \/ Includes(ToLowerCase(responseText), "sorry")
    \/ Includes(ToLowerCase(responseText), "unable to")

\* variant: the lazy pattern /\{[\s\S]*?\}/, which stops at the first '}'
jsonMatch_Lazy(responseText) ==
    LET n      == Len(responseText)
        closers == {j \in 1..n : At(responseText, j) = "}"}
        starts == {i \in 1..n : /\ At(responseText, i) = "{"
                                /\ \E j \in closers : j > i}
    IN  IF starts = {} THEN [found |-> FALSE, text |-> ""]
        ELSE LET i == CHOOSE a \in starts : \A b \in starts : a <= b
                 after == {j \in closers : j > i}
                 j == CHOOSE a \in after : \A b \in after : a <= b
             IN  [found |-> TRUE, text |-> SubSeq(responseText, i, j)]

\* lines 55-56: responseText.match(/\{[\s\S]*\}/).  The match starts at the
\* leftmost '{' that some '}' follows and, being greedy, runs to the last '}'.
jsonMatch(responseText) ==
    LET n      == Len(responseText)
        closers == {j \in 1..n : At(responseText, j) = "}"}
        starts == {i \in 1..n : /\ At(responseText, i) = "{"
                                /\ \E j \in closers : j > i}
    IN  IF starts = {} THEN [found |-> FALSE, text |-> ""]
        ELSE LET i == CHOOSE a \in starts : \A b \in starts : a <= b
                 j == CHOOSE a \in closers : \A b \in closers : a >= b
             IN  [found |-> TRUE, text |-> SubSeq(responseText, i, j)]

\* variant: only the score is required
ShapeInvalid_ScoreOnly(analysisData) ==
    \/ ~Truthy(analysisData)
    \/ ~Truthy(Get(analysisData, "score"))

\* variant: an empty corners array is refused as well
ShapeInvalid_NonEmpty(analysisData) ==
    \/ ~Truthy(analysisData)
    \/ ~Truthy(Get(analysisData, "score"))
    \/ ~Truthy(Get(analysisData, "corners"))
    \/ Get(analysisData, "corners") = JArr(<<>>)

\* variant: the score only has to be present
ShapeInvalid_ScorePresent(analysisData) ==
    \/ ~Truthy(analysisData)
    \/ Get(analysisData, "score").t = "undefined"
    \/ ~Truthy(Get(analysisData, "corners"))

\* line 64
ShapeInvalid(analysisData) ==
    \/ ~Truthy(analysisData)
    \/ ~Truthy(Get(analysisData, "score"))
    \/ ~Truthy(Get(analysisData, "corners"))

\* lines 47-68: the body of the try block
tryBlock(responseText) ==
    IF IsRefusal(responseText) THEN Thrown(MsgNoSamosa)
    ELSE LET m == jsonMatch(responseText)
         IN  IF ~m.found THEN Thrown(MsgNoJson)
             ELSE LET parsed == JSONparse(m.text)
                  IN  IF parsed.threw THEN parsed
                      ELSE IF ShapeInvalid(parsed.value) THEN Thrown(MsgInvalidFormat)
                      ELSE Returned(parsed.value)

\* variant: the catch block rethrows whatever it caught
catchBlock_Rethrow(outcome) == outcome

\* lines 69-74: the catch block
catchBlock(outcome) ==
    IF outcome.threw /\ Includes(outcome.message, "JSON")
    THEN Thrown(MsgNotAnalyzed)
    ELSE outcome

processGeminiResponse(responseText) == catchBlock(tryBlock(responseText))


(***************************************************************************)
(* The replies of the inference service (App.jsx lines 90-116).  A reply   *)
(* is prose, then a body, then prose; the body is either the JSON object   *)
(* the prompt asks for, with each of its two fields present or absent, or  *)
(* raw text.                                                               *)
(***************************************************************************)
RECURSIVE NumToStr(_)
NumToStr(n) ==
    IF n < 10 THEN At(Digits, n + 1)
    ELSE NumToStr(n \div 10) \o At(Digits, (n % 10) + 1)

Corner(name, angle, comment) ==
    JObj([name |-> JStr(name), angle |-> JNum(angle), comment |-> JStr(comment)])

AllCorners ==
    << Corner("Top", 60, "Crispy"),
       Corner("Left", 58, "Golden"),
       Corner("Right", 62, "Soft"),
       Corner("Base", 45, "Flaky") >>

RenderCorner(c) ==
    "{\"name\": \"" \o c.v.name.v \o "\", \"angle\": " \o NumToStr(c.v.angle.v)
        \o ", \"comment\": \"" \o c.v.comment.v \o "\"}"

RECURSIVE RenderCorners(_, _)
RenderCorners(cs, i) ==
    IF i > Len(cs) THEN ""
    ELSE (IF i > 1 THEN ", " ELSE "") \o RenderCorner(cs[i]) \o RenderCorners(cs, i + 1)

RenderValue(x) ==
    CASE x.t = "num"  -> NumToStr(x.v)
      [] x.t = "str"  -> "\"" \o x.v \o "\""
      [] x.t = "bool" -> IF x.v THEN "true" ELSE "false"
      [] x.t = "null" -> "null"
      [] x.t = "arr"  -> "[" \o RenderCorners(x.v, 1) \o "]"

\* the score and the corners a reply may carry; JUndef stands for a field
\* that the reply leaves out
Scores == {JUndef, JNum(85), JNum(100), JNum(0), JNull, JStr(""), JBool(FALSE)}
CornerValues ==
    {JUndef, JNull, JStr("none")}
        \cup {JArr(SubSeq(AllCorners, 1, n)) : n \in 0..MaxCorners}

JsonBody(sc, co) == [json |-> TRUE, score |-> sc, corners |-> co, raw |-> ""]
RawBody(text)    == [json |-> FALSE, score |-> JUndef, corners |-> JUndef, raw |-> text]

RawTexts ==
    { "",
      "I see a triangular pastry but cannot quantify it.",
      "Sorry, I am unable to identify a samosa",
      "{\"score\": 85, \"corners\": [",
      "{\"score\": 85, \"corners\": [],}",
      "{score: 85, corners: []}",
      "{\"score\": 085, \"corners\": [{\"name\": \"Top\"}]}" }

Bodies ==
    {JsonBody(sc, co) : sc \in Scores, co \in CornerValues}
        \cup {RawBody(text) : text \in RawTexts}

Prefixes == { "", "Here you go: ", "SORRY! ", "Note {a} ", "} " }
Suffixes == { "", " I am Unable To say more.", " :}", " {" }

Replies == [pre : Prefixes, body : Bodies, post : Suffixes]

BodyText(body) ==
    IF ~body.json THEN body.raw
    ELSE "{"
         \o (IF body.score.t # "undefined"
             THEN "\"score\": " \o RenderValue(body.score) ELSE "")
         \o (IF body.score.t # "undefined" /\ body.corners.t # "undefined"
             THEN ", " ELSE "")
         \o (IF body.corners.t # "undefined"
             THEN "\"corners\": " \o RenderValue(body.corners) ELSE "")
         \o "}"

\* line 116: response.text()
ReplyText(r) == r.pre \o BodyText(r.body) \o r.post

NoReply == [pre |-> "", body |-> RawBody(""), post |-> ""]


(***************************************************************************)
(* SamosaSharpnessAnalyzer, App.jsx lines 38-236.                          *)
(***************************************************************************)
VARIABLES
    image,                \* useState, line 39
    step,                 \* useState, line 40
    currentMessageIndex,  \* useState, line 41
    score,                \* useState, line 42
    analysis,             \* useState, line 43
    intervals,            \* the intervals set and not yet cleared
    cleanup,              \* the intervals the effect's cleanup will clear
    timerSeq,             \* number of setInterval calls so far
    pc,                   \* where the running onImageChange call waits
    file,                 \* the file of the running onImageChange call
    reader,               \* the FileReader of the running getImageData call
    encodePromise,        \* the promise getImageData returned
    analyzePromise,       \* the promise analyzeImage returned
    reply,                \* what the inference service answered
    responseText,         \* analyzeImage's responseText, line 116
    alerts,               \* messages shown by alert() since the last selection
    calls                 \* getImageData / generateContent calls since then

vars == << image, step, currentMessageIndex, score, analysis, intervals,
           cleanup, timerSeq, pc, file, reader, encodePromise, analyzePromise,
           reply, responseText, alerts, calls >>

reactState == << image, step, currentMessageIndex, score, analysis >>

NoReader == [state |-> "empty", result |-> JNull, events |-> <<>>]

\* the files a user can pick, by declared media type
FileTypes == {"image/png", "text/plain", ""}
Files     == {NoFile} \cup {File(type) : type \in FileTypes}

\* base64 text of a file's bytes; the empty file encodes to the empty text
Base64Payloads == {"", "QUJD"}

\* errors the inference call rejects with
InferenceErrors == {"[GoogleGenerativeAI Error]: fetch failed", ""}

MsgGeneric == "Error processing image. Please try again with a different image."

Init ==
    /\ image = JNull
    /\ step = "upload"
    /\ currentMessageIndex = 0
    /\ score = JNull
    /\ analysis = JNull
    /\ intervals = {}
    /\ cleanup = {}
    /\ timerSeq = 0
    /\ pc = "idle"
    /\ file = NoFile
    /\ reader = NoReader
    /\ encodePromise = NoPromise
    /\ analyzePromise = NoPromise
    /\ reply = NoReply
    /\ responseText = JUndef
    /\ alerts = <<>>
    /\ calls = [encode |-> 0, infer |-> 0]

(***************************************************************************)
(* The event loop.  A promise continuation is a microtask: once the        *)
(* awaited promise has settled it runs before any other task.  The error   *)
(* and loadend events of one read are dispatched in one task.              *)
(***************************************************************************)
MicrotaskReady ==
    \/ pc = "awaitEncode"  /\ encodePromise.state # "pending"
    \/ pc = "awaitAnalyze" /\ analyzePromise.state # "pending"

TaskBoundary == ~MicrotaskReady /\ reader.events = <<>>

\* lines 204-221: rendering the result maps over analysis.corners and
\* destructures each element; it throws when corners has no map or an element
\* is null, and the component is then unmounted
RenderThrows ==
    /\ step = "result"
    /\ Truthy(analysis)
    /\ LET corners == Get(analysis, "corners")
       IN  \/ corners.t # "arr"
           \/ \E i \in 1..Len(corners.v) : corners.v[i].t \in {"null", "undefined"}

(***************************************************************************)
(* useEffect, lines 131-139: after a render in which step changed, the     *)
(* cleanup of the previous effect runs, then the effect.                   *)
(***************************************************************************)
\* variant: the effect returns no cleanup
clearInterval_Leak(active, handles) == active

\* line 137: clearInterval(interval)
clearInterval(active, handles) == active \ handles

useEffect(oldStep, newStep) ==
    IF newStep = oldStep
    THEN [intervals |-> intervals, cleanup |-> cleanup, timerSeq |-> timerSeq]
    ELSE LET cleared == clearInterval(intervals, cleanup)
         IN  IF newStep = "analyzing"
             THEN [intervals |-> cleared \cup {timerSeq + 1},
                   cleanup   |-> {timerSeq + 1},
                   timerSeq  |-> timerSeq + 1]
             ELSE [intervals |-> cleared, cleanup |-> {}, timerSeq |-> timerSeq]

\* setStep(s) and the effect of the render it causes
setStep(s) ==
    /\ step' = s
    /\ LET e == useEffect(step, s)
       IN  /\ intervals' = e.intervals
           /\ cleanup' = e.cleanup
           /\ timerSeq' = e.timerSeq

\* variant: the catch block leaves the step alone
stepAfterError_Stays == "analyzing"

\* variant: the catch block shows the result panel
stepAfterError_Result == "result"

\* the arguments of setStep at lines 154 and 158
stepAfterSuccess == "result"
stepAfterError   == "upload"

\* variant: the catch block only logs
alert_Silent(message) == alerts' = alerts

\* line 157: alert(error.message || "Error processing image. ...")
alert(message) ==
    alerts' = Append(alerts, IF message # "" THEN message ELSE MsgGeneric)


(***************************************************************************)
(* onImageChange, lines 142-161, up to its first await; with it the        *)
(* synchronous part of getImageData (lines 15-20 and 34).  The file input  *)
(* is rendered only in the upload step (lines 172-188).                    *)
(***************************************************************************)
\* variant: the file input is rendered in every step
UploadControlRendered_Always == TRUE

\* line 172: the file input is part of the upload panel only
UploadControlRendered == step = "upload"

\* variant: the handler goes on without a file
FileChosen_Always(f) == TRUE

\* line 144: if (file)
FileChosen(f) == f.present

onImageChange(f) ==
    /\ TaskBoundary
    /\ UploadControlRendered
    /\ IF ~FileChosen(f)
       THEN UNCHANGED vars
       ELSE /\ timerSeq < MaxSelections
            /\ image' = JStr("blob:" \o f.type)
            /\ setStep("analyzing")
            /\ currentMessageIndex' = 0
            /\ score' = JNull
            /\ analysis' = JNull
            /\ file' = f
            /\ calls' = [encode |-> 1, infer |-> 0]
            /\ alerts' = <<>>
            /\ reply' = NoReply
            /\ responseText' = JUndef
            /\ analyzePromise' = NoPromise
            /\ IF InvalidInput(f)
               THEN /\ encodePromise' = Reject(MsgInvalidFile)
                    /\ reader' = NoReader
               ELSE /\ encodePromise' = PendingPromise
                    /\ reader' = [state |-> "loading", result |-> JNull,
                                  events |-> <<>>]
            /\ pc' = "awaitEncode"

(***************************************************************************)
(* The FileReader finishes: a failed read leaves result null and fires     *)
(* error (handled at line 33) and then loadend; a successful read sets     *)
(* result to the data URL and fires load (no handler) and then loadend.    *)
(***************************************************************************)
ReaderError ==
    /\ TaskBoundary
    /\ reader.state = "loading"
    /\ reader' = [state |-> "done", result |-> JNull, events |-> <<"loadend">>]
    /\ encodePromise' = Settle(encodePromise, onerror)
    /\ UNCHANGED << reactState, intervals, cleanup, timerSeq, pc, file,
                    analyzePromise, reply, responseText, alerts, calls >>

ReaderLoad(base64) ==
    /\ TaskBoundary
    /\ reader.state = "loading"
    /\ reader' = [state |-> "done", result |-> JStr(DataURL(file, base64)),
                  events |-> <<"loadend">>]
    /\ UNCHANGED << reactState, intervals, cleanup, timerSeq, pc, file,
                    encodePromise, analyzePromise, reply, responseText,
                    alerts, calls >>

\* lines 21-32
ReaderLoadEnd ==
    /\ ~MicrotaskReady
    /\ reader.events # <<>>
    /\ reader' = [reader EXCEPT !.events = Tail(@)]
    /\ encodePromise' = Settle(encodePromise, onloadend(reader.result))
    /\ UNCHANGED << reactState, intervals, cleanup, timerSeq, pc, file,
                    analyzePromise, reply, responseText, alerts, calls >>

(***************************************************************************)
(* onImageChange resumes after  await getImageData(file)  (line 152):      *)
(* it calls analyzeImage, which runs to  await model.generateContent       *)
(* (line 98), or it enters the catch block (lines 155-158).                *)
(***************************************************************************)
EncodeSettled ==
    /\ pc = "awaitEncode"
    /\ encodePromise.state # "pending"
    /\ IF encodePromise.state = "resolved"
       THEN /\ pc' = "awaitAnalyze"
            /\ analyzePromise' = PendingPromise
            /\ calls' = [calls EXCEPT !.infer = @ + 1]
            /\ UNCHANGED << reactState, intervals, cleanup, timerSeq, alerts >>
       ELSE /\ alert(encodePromise.message)
            /\ setStep(stepAfterError)
            /\ pc' = "idle"
            /\ UNCHANGED << image, currentMessageIndex, score, analysis,
                            analyzePromise, calls >>
    /\ UNCHANGED << file, reader, encodePromise, reply, responseText >>

(***************************************************************************)
(* analyzeImage, lines 78-128, from the point where generateContent        *)
(* settles.                                                                *)
(***************************************************************************)
\* the call fails: lines 124-127 log and rethrow
InferenceRejects(message) ==
    /\ TaskBoundary
    /\ pc = "awaitAnalyze"
    /\ analyzePromise.state = "pending"
    /\ analyzePromise' = Reject(message)
    /\ UNCHANGED << reactState, intervals, cleanup, timerSeq, pc, file, reader,
                    encodePromise, reply, responseText, alerts, calls >>

\* the call answers r: lines 110-123, or 124-127 when validation throws
InferenceReplies(r) ==
    /\ TaskBoundary
    /\ pc = "awaitAnalyze"
    /\ analyzePromise.state = "pending"
    /\ reply' = r
    /\ responseText' = JStr(ReplyText(r))
    /\ LET analysisData == processGeminiResponse(ReplyText(r))
       IN  IF analysisData.threw
           THEN /\ analyzePromise' = Reject(analysisData.message)
                /\ UNCHANGED << score, analysis >>
           ELSE /\ score' = Get(analysisData.value, "score")
                /\ analysis' = analysisData.value
                /\ analyzePromise' = Resolve(analysisData.value)
    /\ UNCHANGED << image, step, currentMessageIndex, intervals, cleanup,
                    timerSeq, pc, file, reader, encodePromise, alerts, calls >>

(***************************************************************************)
(* onImageChange resumes after  await analyzeImage(imageData)  (line 153): *)
(* line 154, or the catch block (lines 155-158).                           *)
(***************************************************************************)
AnalyzeSettled ==
    /\ pc = "awaitAnalyze"
    /\ analyzePromise.state # "pending"
    /\ IF analyzePromise.state = "resolved"
       THEN /\ setStep(stepAfterSuccess)
            /\ UNCHANGED alerts
       ELSE /\ alert(analyzePromise.message)
            /\ setStep(stepAfterError)
    /\ pc' = "idle"
    /\ UNCHANGED << image, currentMessageIndex, score, analysis, file, reader,
                    encodePromise, analyzePromise, reply, responseText, calls >>

\* variant: the index wraps one caption too late
Tick_OffByOne(handle) ==
    /\ TaskBoundary
    /\ ~RenderThrows
    /\ handle \in intervals
    /\ currentMessageIndex' = (currentMessageIndex + 1) % (Len(messages) + 1)
    /\ UNCHANGED << image, step, score, analysis, intervals, cleanup, timerSeq,
                    pc, file, reader, encodePromise, analyzePromise, reply,
                    responseText, alerts, calls >>

\* lines 133-135: the callback of an interval that is set
Tick(handle) ==
    /\ TaskBoundary
    /\ ~RenderThrows
    /\ handle \in intervals
    /\ currentMessageIndex' = (currentMessageIndex + 1) % Len(messages)
    /\ UNCHANGED << image, step, score, analysis, intervals, cleanup, timerSeq,
                    pc, file, reader, encodePromise, analyzePromise, reply,
                    responseText, alerts, calls >>

\* variant: the button also clears the record
AnalyzeAnother_Clears ==
    /\ TaskBoundary
    /\ ~RenderThrows
    /\ step = "result"
    /\ Truthy(analysis)
    /\ setStep("upload")
    /\ score' = JNull
    /\ analysis' = JNull
    /\ UNCHANGED << image, currentMessageIndex, pc, file, reader,
                    encodePromise, analyzePromise, reply, responseText,
                    alerts, calls >>

\* lines 226-231: the button of the result panel (rendered at line 204)
AnalyzeAnother ==
    /\ TaskBoundary
    /\ ~RenderThrows
    /\ step = "result"
    /\ Truthy(analysis)
    /\ setStep("upload")
    /\ UNCHANGED << image, currentMessageIndex, score, analysis, pc, file,
                    reader, encodePromise, analyzePromise, reply, responseText,
                    alerts, calls >>

Next ==
    \/ \E f \in Files : onImageChange(f)
    \/ ReaderError
    \/ \E base64 \in Base64Payloads : ReaderLoad(base64)
    \/ ReaderLoadEnd
    \/ EncodeSettled
    \/ \E message \in InferenceErrors : InferenceRejects(message)
    \/ \E r \in Replies : InferenceReplies(r)
    \/ AnalyzeSettled
    \/ \E handle \in 1..MaxSelections : Tick(handle)
    \/ AnalyzeAnother

Spec == Init /\ [][Next]_vars

\* the read and the inference call settle, and the event loop runs what is
\* ready
Fairness ==
    /\ WF_vars(ReaderError \/ \E base64 \in Base64Payloads : ReaderLoad(base64))
    /\ WF_vars(ReaderLoadEnd)
    /\ WF_vars(EncodeSettled)
    /\ WF_vars(\/ \E message \in InferenceErrors : InferenceRejects(message)
               \/ \E r \in Replies : InferenceReplies(r))
    /\ WF_vars(AnalyzeSettled)

LiveSpec == Spec /\ Fairness

TypeOK ==
    /\ step \in {"upload", "analyzing", "result"}
    /\ pc \in {"idle", "awaitEncode", "awaitAnalyze"}
    /\ currentMessageIndex \in 0..2
    /\ timerSeq \in 0..MaxSelections


(***************************************************************************)
(* Vocabulary of the properties.                                           *)
(***************************************************************************)
Replied == responseText.t = "str"

\* marker stands at position i of text, letter case aside
MarkerAt(text, i, marker) ==
    /\ i + Len(marker) - 1 <= Len(text)
    /\ \A k \in 1..Len(marker) : LowerChar(At(text, i + k - 1)) = At(marker, k)

HasRefusalMarker(text) ==
    \E i \in 1..Len(text) :
        MarkerAt(text, i, "sorry") \/ MarkerAt(text, i, "unable to")

Opens(text)  == {i \in 1..Len(text) : At(text, i) = "{"}
Closes(text) == {i \in 1..Len(text) : At(text, i) = "}"}

\* some '{' of text has a '}' after it
HasSpan(text) == \E i \in Opens(text) : \E j \in Closes(text) : i < j

\* text from its first '{' to its last '}'
FirstToLast(text) ==
    LET i == CHOOSE a \in Opens(text) : \A b \in Opens(text) : a <= b
        j == CHOOSE a \in Closes(text) : \A b \in Closes(text) : a >= b
    IN  SubSeq(text, i, j)

\* the reply was refused and nothing of it was kept
RejectedWith(message) ==
    /\ analyzePromise = Reject(message)
    /\ score = JNull
    /\ analysis = JNull
    /\ pc = "idle" => step = "upload" /\ alerts = << message >>

\* the object a JSON body stands for
BodyObject(body) ==
    JObj([k \in {f \in {"score", "corners"} : body[f].t # "undefined"} |-> body[k]])

\* prose without braces around a JSON body
PlainProse == {"", "Here you go: "}

Failed == encodePromise.state = "rejected" \/ analyzePromise.state = "rejected"

(***************************************************************************)
(* C1.  Under LiveSpec (the read and the inference call settle): whenever  *)
(* the step is analyzing it later is upload or result; a finished          *)
(* onImageChange call never leaves the step at analyzing; the step turns   *)
(* to result only when encode and analysis both succeeded and to upload    *)
(* only when one of them failed.                                           *)
(***************************************************************************)
C1_SelectionEnds ==
    /\ (step = "analyzing") ~> (step \in {"upload", "result"})
    /\ [](pc = "idle" => step # "analyzing")
    /\ [][ /\ (step = "analyzing" /\ step' = "result") =>
                 (encodePromise.state = "resolved" /\ analyzePromise.state = "resolved")
           /\ (step = "analyzing" /\ step' = "upload") => Failed ]_vars

C1_Witness ==
    /\ pc = "idle"
    /\ step = "result"
    /\ encodePromise.state = "resolved"
    /\ analyzePromise.state = "resolved"

(***************************************************************************)
(* C2.  A reply text with a refusal marker, in any letter case, is         *)
(* rejected with the no-samosa message whatever else it contains: no       *)
(* score and no analysis are stored.                                       *)
(***************************************************************************)
C2_RefusalRejected ==
    (Replied /\ HasRefusalMarker(responseText.v)) => RejectedWith(MsgNoSamosa)

\* a refusal in capitals in front of the well-formed object of the prompt
C2_Witness ==
    /\ reply.pre = "SORRY! "
    /\ reply.body = JsonBody(JNum(85), JArr(SubSeq(AllCorners, 1, 1)))
    /\ reply.post = ""
    /\ pc = "idle"
    /\ alerts = << MsgNoSamosa >>

(***************************************************************************)
(* C3.  A reply text without refusal marker in which no '{' has a '}'      *)
(* after it is rejected with the no-analysis message; when there is such   *)
(* a pair, the span matched is the text from its first '{' to its last     *)
(* '}'.                                                                    *)
(***************************************************************************)
C3_SpanExtraction ==
    (Replied /\ ~HasRefusalMarker(responseText.v)) =>
        IF HasSpan(responseText.v)
        THEN jsonMatch(responseText.v) =
                 [found |-> TRUE, text |-> FirstToLast(responseText.v)]
        ELSE RejectedWith(MsgNoJson)

\* braces in the wrong order: a '}' and then a '{'
C3_Witness ==
    /\ reply.pre = "} "
    /\ reply.post = " {"
    /\ ~reply.body.json
    /\ pc = "idle"
    /\ alerts = << MsgNoJson >>

(***************************************************************************)
(* C4.  A reply whose span from the first '{' to the last '}' does not     *)
(* decode is rejected as a reply without such a span is: nothing is        *)
(* stored, one message is shown and the step returns to upload.  The       *)
(* message is not the same: MsgNotAnalyzed for the span that does not      *)
(* decode, MsgNoJson for the missing span.                                 *)
(***************************************************************************)
Undecodable(text) == HasSpan(text) /\ JSONparse(FirstToLast(text)).threw

C4_DecodeFailureMessage ==
    (Replied /\ ~HasRefusalMarker(responseText.v)) =>
        /\ Undecodable(responseText.v) => RejectedWith(MsgNotAnalyzed)
        /\ ~HasSpan(responseText.v) => RejectedWith(MsgNoJson)
        /\ MsgNotAnalyzed # MsgNoJson

\* the statement as given: the span that does not decode is reported with
\* the message of the missing span
C4_Original ==
    (Replied /\ ~HasRefusalMarker(responseText.v) /\ Undecodable(responseText.v))
        => RejectedWith(MsgNoJson)

\* an object with a trailing comma
C4_Witness ==
    /\ reply = [pre |-> "", body |-> RawBody("{\"score\": 85, \"corners\": [],}"),
                post |-> ""]
    /\ pc = "idle"
    /\ alerts = << MsgNotAnalyzed >>

(***************************************************************************)
(* C5.  A reply whose span decodes to an object without score or without   *)
(* corners is rejected with the invalid-format message; score and          *)
(* analysis stay null and the step returns to upload.                      *)
(***************************************************************************)
C5_MissingFieldRejected ==
    (Replied /\ ~HasRefusalMarker(responseText.v) /\ HasSpan(responseText.v)) =>
        LET decoded == JSONparse(FirstToLast(responseText.v))
        IN  ( /\ ~decoded.threw
              /\ decoded.value.t = "obj"
              /\ \/ "score" \notin DOMAIN decoded.value.v
                 \/ "corners" \notin DOMAIN decoded.value.v )
            => RejectedWith(MsgInvalidFormat)

\* the object of the prompt without its score
C5_Witness ==
    /\ reply = [pre |-> "", post |-> "",
                body |-> JsonBody(JUndef, JArr(SubSeq(AllCorners, 1, 1)))]
    /\ pc = "idle"
    /\ step = "upload"
    /\ alerts = << MsgInvalidFormat >>

(***************************************************************************)
(* C6.  In the result step the stored analysis has at least one corner     *)
(* observation.                                                            *)
(***************************************************************************)
C6_AtLeastOneCorner ==
    step = "result" =>
        /\ Get(analysis, "corners").t = "arr"
        /\ Len(Get(analysis, "corners").v) >= 1

(***************************************************************************)
(* C7.  A reply text without refusal marker whose span from the first '{'  *)
(* to the last '}' decodes to an object with truthy score and truthy       *)
(* corners is accepted, and what is stored is that object: for a JSON      *)
(* body in plain prose, the score and the corners the body was written     *)
(* from, in their order.                                                   *)
(***************************************************************************)
C7_AcceptedAsDecoded ==
    (Replied /\ ~HasRefusalMarker(responseText.v)) =>
        /\ ( /\ reply.body.json
             /\ reply.pre \in PlainProse
             /\ reply.post = ""
             /\ Truthy(reply.body.score)
             /\ Truthy(reply.body.corners) )
           => /\ analyzePromise = Resolve(BodyObject(reply.body))
              /\ analysis = BodyObject(reply.body)
              /\ score = reply.body.score
              /\ Get(analysis, "corners") = reply.body.corners
        /\ ( /\ HasSpan(responseText.v)
             /\ ~JSONparse(FirstToLast(responseText.v)).threw
             /\ Truthy(Get(JSONparse(FirstToLast(responseText.v)).value, "score"))
             /\ Truthy(Get(JSONparse(FirstToLast(responseText.v)).value, "corners")) )
           => /\ analysis = JSONparse(FirstToLast(responseText.v)).value
              /\ analyzePromise.state = "resolved"

\* the example of the prompt, after some prose
C7_Witness ==
    /\ reply = [pre |-> "Here you go: ", post |-> "",
                body |-> JsonBody(JNum(85), JArr(SubSeq(AllCorners, 1, 1)))]
    /\ step = "result"
    /\ score = JNum(85)
    /\ analysis = JObj([score |-> JNum(85),
                        corners |-> JArr(<< Corner("Top", 60, "Crispy") >>)])

(***************************************************************************)
(* C8.  A failed encode, inference call or validation shows one message    *)
(* (the error's, or the generic one when it has none) and returns the      *)
(* step to upload once; getImageData and generateContent are each called   *)
(* at most once per selected file, and a message is shown only on the      *)
(* step from analyzing to upload that ends the call.                       *)
(***************************************************************************)
FailureMessage ==
    LET m == IF encodePromise.state = "rejected"
             THEN encodePromise.message ELSE analyzePromise.message
    IN  IF m # "" THEN m ELSE MsgGeneric

C8_FailureReportedOnce ==
    /\ []( /\ Len(alerts) <= 1
           /\ calls.encode <= 1
           /\ calls.infer <= 1
           /\ (pc = "idle" /\ Failed) =>
                 (alerts = << FailureMessage >> /\ step = "upload")
           /\ alerts # <<>> => Failed /\ pc = "idle" )
    /\ [][ (alerts' # alerts /\ alerts' # <<>>) =>
              (step = "analyzing" /\ step' = "upload" /\ pc' = "idle") ]_vars
    /\ [][ (calls' # calls) =>
              \/ (step = "upload" /\ calls'.encode = 1 /\ calls'.infer = 0)
              \/ (calls.infer = 0 /\ encodePromise.state = "resolved") ]_vars

\* an inference error without message: the generic message is shown
C8_Witness ==
    /\ pc = "idle"
    /\ step = "upload"
    /\ analyzePromise = Reject("")
    /\ alerts = << MsgGeneric >>
    /\ calls = [encode |-> 1, infer |-> 1]

C10_ClearedOnNextSelection ==
    /\ [][ (step = "result" /\ step' = "upload") =>
              (score' = score /\ analysis' = analysis /\ Truthy(analysis')) ]_vars
    /\ [][ (step = "upload" /\ step' = "analyzing") =>
              (score' = JNull /\ analysis' = JNull) ]_vars

\* the statement as given: the step from result to upload clears both
C10_Original ==
    [][ (step = "result" /\ step' = "upload") =>
           (score' = JNull /\ analysis' = JNull) ]_vars

\* back in upload with the record of the last analysis still stored
C10_Witness ==
    /\ step = "upload"
    /\ pc = "idle"
    /\ Truthy(analysis)
    /\ Truthy(score)


(***************************************************************************)
(* C11.  generateContent is called only from the continuation of a         *)
(* resolved getImageData, for an image file.  getImageData refuses the     *)
(* absent file and every file whose type is not an image type; for a       *)
(* selected file of such a type it rejects with the invalid-file message   *)
(* before a reader is created, and no inference call is made for that      *)
(* selection.                                                              *)
(***************************************************************************)
NonImageTypes == {"text/plain", ""}

C11_InferenceAfterEncode ==
    /\ [](\A f \in Files : (~f.present \/ f.type \in NonImageTypes) => InvalidInput(f))
    /\ [](calls.infer > 0 =>
             /\ encodePromise.state = "resolved"
             /\ file.present
             /\ file.type \notin NonImageTypes)
    /\ []((calls.encode > 0 /\ file.type \in NonImageTypes) =>
             /\ encodePromise = Reject(MsgInvalidFile)
             /\ reader = NoReader
             /\ analyzePromise.state = "none"
             /\ calls.infer = 0)
    /\ [][ calls'.infer > calls.infer =>
              (pc = "awaitEncode" /\ encodePromise.state = "resolved") ]_vars

\* a text file was selected: one message, no inference call
C11_Witness ==
    /\ file = File("text/plain")
    /\ pc = "idle"
    /\ step = "upload"
    /\ alerts = << MsgInvalidFile >>
    /\ calls = [encode |-> 1, infer |-> 0]


(***************************************************************************)
(* C12.  One onImageChange call at a time: a file is selected only in the  *)
(* upload step and only when no call is waiting; a call waits exactly      *)
(* while the step is analyzing, so in the upload and result steps no       *)
(* promise is pending and no read is under way.                            *)
(***************************************************************************)
C12_OnePipeline ==
    /\ [](pc # "idle" <=> step = "analyzing")
    /\ [](step \in {"upload", "result"} =>
             /\ encodePromise.state # "pending"
             /\ analyzePromise.state # "pending"
             /\ reader.state # "loading")
    /\ [](~(encodePromise.state = "pending" /\ analyzePromise.state = "pending"))
    /\ [][ (\E f \in Files : f.present /\ onImageChange(f)) =>
              (step = "upload" /\ pc = "idle" /\ pc' = "awaitEncode") ]_vars

\* the second call waits for the inference service after the first ended
C12_Witness ==
    /\ timerSeq = 2
    /\ step = "analyzing"
    /\ pc = "awaitAnalyze"
    /\ analyzePromise.state = "pending"


(***************************************************************************)
(* C13.  In the result step a validated record is stored: analysis is the  *)
(* object decoded from the reply to the file selected last (responseText   *)
(* is the reply of the running selection), it is the value analyzeImage    *)
(* resolved with, and score is its score.                                  *)
(***************************************************************************)
C13_ResultHoldsCurrentRecord ==
    step = "result" =>
        /\ Truthy(analysis)
        /\ Truthy(score)
        /\ score = Get(analysis, "score")
        /\ analyzePromise = Resolve(analysis)
        /\ calls = [encode |-> 1, infer |-> 1]
        /\ Replied
        /\ HasSpan(responseText.v)
        /\ analysis = JSONparse(FirstToLast(responseText.v)).value

\* the second selection of the session ended in the result step, with the
\* record of its own reply
C13_Witness ==
    /\ timerSeq = 2
    /\ step = "result"
    /\ reply = [pre |-> "", post |-> "",
                body |-> JsonBody(JNum(100), JArr(SubSeq(AllCorners, 1, 2)))]
    /\ score = JNum(100)


(***************************************************************************)
(* C14.  step starts as upload and is always upload, analyzing or result.  *)
(* It changes only from upload to analyzing (a file was selected), from    *)
(* analyzing to upload (a rejection was caught), from analyzing to result  *)
(* (analyzeImage resolved) and from result to upload (the button); a       *)
(* change event without a file changes nothing.                            *)
(***************************************************************************)
C14_StepTransitions ==
    /\ step = "upload"
    /\ [](step \in {"upload", "analyzing", "result"})
    /\ [][ step' # step =>
              \/ /\ step = "upload" /\ step' = "analyzing"
                 /\ file'.present
                 /\ pc = "idle" /\ pc' = "awaitEncode"
              \/ /\ step = "analyzing" /\ step' = "upload"
                 /\ Failed
                 /\ pc' = "idle"
              \/ /\ step = "analyzing" /\ step' = "result"
                 /\ ~Failed
                 /\ analyzePromise.state = "resolved"
                 /\ pc' = "idle"
              \/ /\ step = "result" /\ step' = "upload"
                 /\ pc = "idle" /\ pc' = "idle" ]_vars
    /\ [][ onImageChange(NoFile) => UNCHANGED vars ]_vars

\* the second selection of the session failed and the step is upload again
C14_Witness ==
    /\ timerSeq = 2
    /\ step = "upload"
    /\ pc = "idle"
    /\ file.present
    /\ Failed
    /\ Len(alerts) = 1


(***************************************************************************)
(* C15.  score and analysis are both null, or both come from one record    *)
(* that passed validation: the object decoded from a reply without         *)
(* refusal marker, with truthy score and corners.  After a rejection both  *)
(* are null, in particular on the step from analyzing back to upload.      *)
(***************************************************************************)
C15_NoPartialResult ==
    /\ [](\/ score = JNull /\ analysis = JNull
          \/ /\ Truthy(analysis)
             /\ Truthy(score)
             /\ score = Get(analysis, "score")
             /\ Truthy(Get(analysis, "corners"))
             /\ analyzePromise = Resolve(analysis)
             /\ Replied
             /\ ~HasRefusalMarker(responseText.v)
             /\ HasSpan(responseText.v)
             /\ analysis = JSONparse(FirstToLast(responseText.v)).value)
    /\ [](Failed => score = JNull /\ analysis = JNull)
    /\ [][ (step = "analyzing" /\ step' = "upload") =>
              (score' = JNull /\ analysis' = JNull) ]_vars

\* a reply with a score but without corners was rejected: the score of the
\* reply is not kept
C15_Witness ==
    /\ reply = [pre |-> "", post |-> "", body |-> JsonBody(JNum(85), JUndef)]
    /\ pc = "idle"
    /\ step = "upload"
    /\ analyzePromise = Reject(MsgInvalidFormat)
    /\ score = JNull
    /\ analysis = JNull


(***************************************************************************)
(* C16.  currentMessageIndex is always the index of one of the three       *)
(* captions.  It is 0 on every entry to the analyzing step and changes     *)
(* otherwise only within that step, from 0 to 1, from 1 to 2 and from 2    *)
(* to 0.                                                                   *)
(***************************************************************************)
C16_CaptionIndexRotates ==
    /\ [](/\ Len(messages) = 3
          /\ currentMessageIndex \in 0..2
          /\ currentMessageIndex + 1 \in DOMAIN messages)
    /\ [][ (step # "analyzing" /\ step' = "analyzing") =>
              currentMessageIndex' = 0 ]_vars
    /\ [][ currentMessageIndex' # currentMessageIndex =>
              \/ step = "upload" /\ step' = "analyzing" /\ currentMessageIndex' = 0
              \/ /\ step = "analyzing" /\ step' = "analyzing"
                 /\ currentMessageIndex' =
                        IF currentMessageIndex = 2 THEN 0 ELSE currentMessageIndex + 1
                 /\ UNCHANGED << score, analysis, pc, alerts >> ]_vars

\* the third caption is shown during the second analysis of the session
C16_Witness ==
    /\ timerSeq = 2
    /\ step = "analyzing"
    /\ currentMessageIndex = 2
    /\ messages[currentMessageIndex + 1] = "Consulting with AI food experts..."


(***************************************************************************)
(* C17.  The promise of getImageData settles once: it changes only from    *)
(* pending to resolved or rejected, or when the next file is selected.     *)
(* It resolves only with the non-empty text that follows the comma of the  *)
(* data URL read; a data URL with nothing after the comma rejects it with  *)
(* the conversion message; a failed read rejects it with the read-error    *)
(* message, and the loadend callback that follows does not change that.    *)
(***************************************************************************)
C17_EncodeSettlesOnce ==
    /\ [][ encodePromise' # encodePromise =>
              \/ /\ encodePromise.state = "pending"
                 /\ encodePromise'.state \in {"resolved", "rejected"}
              \/ step = "upload" /\ step' = "analyzing" ]_vars
    /\ [](encodePromise.state = "resolved" =>
             /\ encodePromise.value.t = "str"
             /\ encodePromise.value.v # ""
             /\ reader.events = <<>>
             /\ reader.result =
                    JStr("data:" \o file.type \o ";base64," \o encodePromise.value.v))
    /\ []((reader.state = "done" /\ reader.events = <<>>
             /\ reader.result = JStr("data:" \o file.type \o ";base64,"))
          => encodePromise = Reject(MsgNoBase64))
    /\ []((reader.state = "done" /\ reader.result = JNull)
          => encodePromise = Reject(MsgReadError))

\* a failed read after both of its callbacks have run
C17_Witness ==
    /\ reader = [state |-> "done", result |-> JNull, events |-> <<>>]
    /\ encodePromise = Reject(MsgReadError)
    /\ alerts = << MsgReadError >>
    /\ step = "upload"


(***************************************************************************)
(* C18.  A reply whose decoded object has a score that is 0, the empty     *)
(* string, false or null is rejected with the invalid-format message, as   *)
(* a reply without score is, whatever its corners are; the step does not   *)
(* become result.                                                          *)
(***************************************************************************)
FalsyScores == {JNum(0), JStr(""), JBool(FALSE), JNull}

C18_FalsyScoreRejected ==
    (Replied /\ ~HasRefusalMarker(responseText.v)) =>
        /\ ( /\ reply.body.json
             /\ reply.pre \in PlainProse
             /\ reply.post = ""
             /\ reply.body.score \in FalsyScores \cup {JUndef} )
           => (RejectedWith(MsgInvalidFormat) /\ step # "result")
        /\ ( /\ HasSpan(responseText.v)
             /\ ~JSONparse(FirstToLast(responseText.v)).threw
             /\ Get(JSONparse(FirstToLast(responseText.v)).value, "score")
                    \in FalsyScores )
           => (RejectedWith(MsgInvalidFormat) /\ step # "result")

\* a samosa scored 0, with its corners
C18_Witness ==
    /\ reply = [pre |-> "Here you go: ", post |-> "",
                body |-> JsonBody(JNum(0), JArr(SubSeq(AllCorners, 1, 2)))]
    /\ pc = "idle"
    /\ step = "upload"
    /\ alerts = << MsgInvalidFormat >>

=============================================================================
